---- MODULE Spec2Model ----
(***************************************************************************)
(* A model of DeepSea's stage parser (cli/stage_parser.py): the resolution *)
(* of relative includes, the recursive expansion of a stage into a flat   *)
(* list of steps, the cache files the expansion reads and writes, the     *)
(* requisite linking pass and clean_cache.                                 *)
(*                                                                         *)
(* Python strings are tuples of one-character strings, so that            *)
(* startswith, find, split, join, slicing and the glob match are computed *)
(* on characters as the code computes them.                               *)
(***************************************************************************)
EXTENDS Integers, Sequences, FiniteSets, TLC

VARIABLES
    world,      \* which contents of /srv/salt the program runs against
    cache,      \* the cache files in /tmp: file path -> [st, plan]
    stack,      \* the call stack: parse_state_steps, then _traverse_state frames
    call,       \* the arguments of the current or latest parse_state_steps call
    outcome,    \* how that call stands or ended: [kind, plan]
    renders,    \* SLSRenderer.render calls made by the current call
    touched,    \* <<what, state_name>>: cache lookups, path lookups, renders of the call
    prev,       \* the call before this one, when it returned with the default flags
    lastInc,    \* the latest _gen_state_name_from_include call and its result
    lastOp      \* the latest operation: [op, arg, removed]

vars == <<world, cache, stack, call, outcome, renders, touched, prev, lastInc, lastOp>>

----------------------------------------------------------------------------
(* Python values *)

\* None; no string is equal to it
NoneV == <<"None">>

\* str(True), str(False), as str.format writes them
Str(b) == IF b THEN <<"T","r","u","e">> ELSE <<"F","a","l","s","e">>

\* '{}'.format(x) of a string or None
Fmt(x) == IF x = NoneV THEN <<"N","o","n","e">> ELSE x

\* s.startswith(p)
StartsWith(s, p) == Len(s) >= Len(p) /\ SubSeq(s, 1, Len(p)) = p

\* s.endswith(p)
EndsWith(s, p) == Len(s) >= Len(p) /\ SubSeq(s, Len(s) - Len(p) + 1, Len(s)) = p

\* sub in s
Contains(s, sub) ==
    \E i \in 1..(Len(s) - Len(sub) + 1) : SubSeq(s, i, i + Len(sub) - 1) = sub

\* s.find(c): the 0-based index of the first c, or -1
Find(s, c) ==
    IF \E i \in 1..Len(s) : s[i] = c
    THEN (CHOOSE i \in 1..Len(s) : s[i] = c /\ \A j \in 1..(i - 1) : s[j] # c) - 1
    ELSE -1

\* s[:n] for any integer n (a negative n counts from the end)
SliceTo(s, n) ==
    IF n >= 0 THEN SubSeq(s, 1, IF n < Len(s) THEN n ELSE Len(s))
    ELSE SubSeq(s, 1, IF Len(s) + n > 0 THEN Len(s) + n ELSE 0)

\* s.replace(a, b) for single characters a, b
Replace(s, a, b) == [i \in 1..Len(s) |-> IF s[i] = a THEN b ELSE s[i]]

\* s.split(sep) for a single character sep
RECURSIVE Split(_, _)
Split(s, sep) ==
    LET i == Find(s, sep) IN
    IF i = -1 THEN <<s>>
    ELSE <<SubSeq(s, 1, i)>> \o Split(SubSeq(s, i + 2, Len(s)), sep)

\* sep.join(parts)
RECURSIVE Join(_, _)
Join(parts, sep) ==
    IF parts = <<>> THEN <<>>
    ELSE IF Len(parts) = 1 THEN parts[1]
    ELSE parts[1] \o sep \o Join(Tail(parts), sep)

----------------------------------------------------------------------------
(* The shapes of a rendered sls file *)

\* a value of a step argument: a string, a list of requisite entries, a
\* mapping of requisite pairs, or None
StrV(s) == [ty |-> "str", s |-> s, items |-> <<>>]
ListV(items) == [ty |-> "list", s |-> NoneV, items |-> items]
DictV(items) == [ty |-> "dict", s |-> NoneV, items |-> items]
NoneVal == [ty |-> "none", s |-> NoneV, items |-> <<>>]

\* a requisite entry: the one-pair mapping {mod: sid}, or the bare sid
ReqD(mod, sid) == [isdict |-> TRUE, mod |-> mod, sid |-> sid]
ReqS(sid) == [isdict |-> FALSE, mod |-> NoneV, sid |-> sid]

\* an element of a step's argument list: the one-pair mapping {k: v}, or a
\* bare scalar v (none of the scalars used holds an argument name)
KV(k, v) == [haskey |-> TRUE, k |-> k, v |-> v]
Scalar(v) == [haskey |-> FALSE, k |-> NoneV, v |-> v]

\* the arguments of a step: a list as rendered, or a dict once normalised
ListArgs(items) == [isdict |-> FALSE, items |-> items]
DictArgs(items) == [isdict |-> TRUE, items |-> items]

\* a declaration of a state file: key -> body
Include(incs) == [key |-> <<"i","n","c","l","u","d","e">>, isdict |-> FALSE, incs |-> incs, funs |-> <<>>]
Decl(key, funs) == [key |-> key, isdict |-> TRUE, incs |-> <<>>, funs |-> funs]
Fn(fun, args) == [fun |-> fun, args |-> ListArgs(args)]

----------------------------------------------------------------------------
(* The contents of /srv/salt the program is run against.  Each world is a   *)
(* small tree of state files; Init picks one.                               *)

\* a runner step, a builtin command with a bare scalar argument
RunnerDecl(key, fun) == Decl(key, <<Fn(<<"s","a","l","t",".","r","u","n","n","e","r">>, <<KV(<<"n","a","m","e">>, StrV(fun))>>)>>)
CmdDecl(key) == Decl(key, <<Fn(<<"c","m","d",".","r","u","n">>, <<KV(<<"n","a","m","e">>, StrV(<<"l","s">>)), Scalar(StrV(<<"b","a","r">>))>>)>>)

\* step B of the linking worlds: require: [{salt: A}]
DeclB ==
    Decl(<<"B">>, <<Fn(<<"s","a","l","t",".","r","u","n","n","e","r">>,
                    <<KV(<<"n","a","m","e">>, StrV(<<"b",".","r","u","n">>)),
                      KV(<<"r","e","q","u","i","r","e">>, ListV(<<ReqD(<<"s","a","l","t">>, <<"A">>)>>))>>)>>)

\* step A of the linking worlds, one per kind of step
DeclA(w) ==
    CASE w = "linkRunner" -> RunnerDecl(<<"A">>, <<"a",".","r","u","n">>)
      [] w = "linkState" ->
            Decl(<<"A">>, <<Fn(<<"s","a","l","t",".","s","t","a","t","e">>, <<KV(<<"t","g","t">>, StrV(<<"m">>)), KV(<<"s","l","s">>, StrV(<<"c","e","p","h",".","s","u","b">>))>>)>>)
      [] w = "linkModule" ->
            Decl(<<"A">>, <<Fn(<<"m","o","d","u","l","e",".","r","u","n">>, <<KV(<<"n","a","m","e">>, StrV(<<"a",".","m","o","d">>))>>)>>)
      [] w = "linkBuiltIn" -> CmdDecl(<<"A">>)
      [] w = "linkFunction" ->
            Decl(<<"A">>, <<Fn(<<"s","a","l","t",".","f","u","n","c","t","i","o","n">>, <<KV(<<"n","a","m","e">>, StrV(<<"c","m","d",".","r","u","n">>)), KV(<<"t","g","t">>, StrV(<<"m">>))>>)>>)

LinkWorlds == {"linkRunner", "linkState", "linkModule", "linkBuiltIn", "linkFunction"}

Worlds == LinkWorlds \cup {"composite4", "compositeStage", "leaf4", "leafstage", "cycle", "badreq", "nosls", "underscore"}

\* the directories under /srv/salt
WorldDirs(w) ==
    CASE w = "composite4" -> {<<"/","s","r","v","/","s","a","l","t","/","c","e","p","h">>, <<"/","s","r","v","/","s","a","l","t","/","c","e","p","h","/","s","t","a","g","e">>, <<"/","s","r","v","/","s","a","l","t","/","c","e","p","h","/","s","t","a","g","e","/","4">>}
      [] w = "leafstage" -> {<<"/","s","r","v","/","s","a","l","t","/","c","e","p","h">>}
      [] OTHER -> {<<"/","s","r","v","/","s","a","l","t","/","c","e","p","h">>, <<"/","s","r","v","/","s","a","l","t","/","c","e","p","h","/","s","t","a","g","e">>}

\* the sls files under /srv/salt, each with what the renderer returns for it
WorldFiles(w) ==
    CASE w = "composite4" ->
            (<<"/","s","r","v","/","s","a","l","t","/","c","e","p","h","/","s","t","a","g","e","/","4","/","i","n","i","t",".","s","l","s">> :> <<Include(<<<<".",".","i","s","c","s","i">>>>), RunnerDecl(<<"d","o","n","e">>, <<"d",".","r","u","n">>)>>)
         @@ (<<"/","s","r","v","/","s","a","l","t","/","c","e","p","h","/","s","t","a","g","e","/","i","s","c","s","i",".","s","l","s">> :> <<CmdDecl(<<"i","g","w">>)>>)
      [] w = "compositeStage" ->
            (<<"/","s","r","v","/","s","a","l","t","/","c","e","p","h","/","s","t","a","g","e","/","i","n","i","t",".","s","l","s">> :> <<Include(<<<<".","o","p","e","n","a","t","t","i","c">>>>), RunnerDecl(<<"d","o","n","e">>, <<"d",".","r","u","n">>)>>)
         @@ (<<"/","s","r","v","/","s","a","l","t","/","c","e","p","h","/","s","t","a","g","e","/","o","p","e","n","a","t","t","i","c",".","s","l","s">> :> <<CmdDecl(<<"o","a">>)>>)
      [] w = "leaf4" ->
            (<<"/","s","r","v","/","s","a","l","t","/","c","e","p","h","/","s","t","a","g","e","/","4",".","s","l","s">> :> <<Include(<<<<".",".","i","s","c","s","i">>>>), RunnerDecl(<<"d","o","n","e">>, <<"d",".","r","u","n">>)>>)
      [] w = "leafstage" ->
            (<<"/","s","r","v","/","s","a","l","t","/","c","e","p","h","/","s","t","a","g","e",".","s","l","s">> :> <<Include(<<<<".","o","p","e","n","a","t","t","i","c">>>>), RunnerDecl(<<"d","o","n","e">>, <<"d",".","r","u","n">>)>>)
         @@ (<<"/","s","r","v","/","s","a","l","t","/","c","e","p","h","/","o","p","e","n","a","t","t","i","c",".","s","l","s">> :> <<CmdDecl(<<"o","a">>)>>)
      [] w \in LinkWorlds ->
            (<<"/","s","r","v","/","s","a","l","t","/","c","e","p","h","/","s","t","a","g","e","/","1",".","s","l","s">> :> <<DeclA(w), DeclB>>)
         @@ (<<"/","s","r","v","/","s","a","l","t","/","c","e","p","h","/","s","u","b",".","s","l","s">> :> <<CmdDecl(<<"S">>)>>)
      [] w = "cycle" ->
            (<<"/","s","r","v","/","s","a","l","t","/","c","e","p","h","/","s","t","a","g","e","/","p",".","s","l","s">> :> <<Include(<<<<".","q">>>>)>>)
         @@ (<<"/","s","r","v","/","s","a","l","t","/","c","e","p","h","/","s","t","a","g","e","/","q",".","s","l","s">> :>
                <<Decl(<<"a","g","a","i","n">>, <<Fn(<<"s","a","l","t",".","s","t","a","t","e">>, <<KV(<<"t","g","t">>, StrV(<<"m">>)), KV(<<"s","l","s">>, StrV(<<"c","e","p","h",".","s","t","a","g","e",".","p">>))>>)>>)>>)
      [] w = "badreq" ->
            (<<"/","s","r","v","/","s","a","l","t","/","c","e","p","h","/","s","t","a","g","e","/","2",".","s","l","s">> :>
                <<RunnerDecl(<<"A">>, <<"a",".","r","u","n">>),
                  Decl(<<"C">>, <<Fn(<<"s","a","l","t",".","r","u","n","n","e","r">>,
                                  <<KV(<<"n","a","m","e">>, StrV(<<"c",".","r","u","n">>)),
                                    KV(<<"o","n","f","a","i","l">>, ListV(<<ReqD(<<"s","a","l","t">>, <<"A">>)>>)),
                                    KV(<<"r","e","q","u","i","r","e">>, StrV(<<"z","z">>))>>)>>)>>)
      [] w = "nosls" ->
            (<<"/","s","r","v","/","s","a","l","t","/","c","e","p","h","/","s","t","a","g","e","/","3",".","s","l","s">> :> <<Decl(<<"T">>, <<Fn(<<"s","a","l","t",".","s","t","a","t","e">>, <<KV(<<"t","g","t">>, StrV(<<"m">>))>>)>>)>>)
      [] w = "underscore" ->
            (<<"/","s","r","v","/","s","a","l","t","/","c","e","p","h","/","s","t","a","g","e","/","5",".","s","l","s">> :>
                <<Decl(<<"X">>, <<Fn(<<"s","a","l","t",".","s","t","a","t","e">>, <<KV(<<"t","g","t">>, StrV(<<"m">>)), KV(<<"s","l","s">>, StrV(<<"c","o","r","e">>))>>)>>),
                  Decl(<<"Y">>, <<Fn(<<"s","a","l","t",".","s","t","a","t","e">>, <<KV(<<"t","g","t">>, StrV(<<"m">>)), KV(<<"s","l","s">>, StrV(<<"c","e","p","h",".","s","t","a","g","e",".","x","_","c","o","r","e">>))>>)>>)>>)
         @@ (<<"/","s","r","v","/","s","a","l","t","/","c","o","r","e",".","s","l","s">> :> <<CmdDecl(<<"c">>)>>)
         @@ (<<"/","s","r","v","/","s","a","l","t","/","c","e","p","h","/","s","t","a","g","e","/","x","_","c","o","r","e",".","s","l","s">> :> <<CmdDecl(<<"x","c">>)>>)

\* the state names a caller asks parse_state_steps for
Roots(w) ==
    CASE w = "composite4" -> {<<"c","e","p","h",".","s","t","a","g","e",".","4">>}
      [] w = "compositeStage" -> {<<"c","e","p","h",".","s","t","a","g","e">>}
      [] w = "leaf4" -> {<<"c","e","p","h",".","s","t","a","g","e",".","4">>}
      [] w = "leafstage" -> {<<"c","e","p","h",".","s","t","a","g","e">>}
      [] w = "linkState" -> {<<"c","e","p","h",".","s","t","a","g","e",".","1">>, <<"c","e","p","h",".","s","u","b">>}
      [] w \in LinkWorlds \ {"linkState"} -> {<<"c","e","p","h",".","s","t","a","g","e",".","1">>}
      [] w = "cycle" -> {<<"c","e","p","h",".","s","t","a","g","e",".","p">>}
      [] w = "badreq" -> {<<"c","e","p","h",".","s","t","a","g","e",".","2">>}
      [] w = "nosls" -> {<<"c","e","p","h",".","s","t","a","g","e",".","3">>}
      [] w = "underscore" -> {<<"c","e","p","h",".","s","t","a","g","e",".","5">>}

\* the state names a caller asks clean_cache for (None: all of them)
CleanArgs(w) ==
    CASE w = "underscore" -> {NoneV, <<"c","e","p","h",".","s","t","a","g","e",".","5">>, <<"c","o","r","e">>}
      [] w = "composite4" -> {NoneV, <<"c","e","p","h",".","s","t","a","g","e",".","4">>, <<"c","e","p","h",".","s","t","a","g","e",".","i","s","c","s","i">>}
      [] OTHER -> {NoneV} \cup Roots(w)

----------------------------------------------------------------------------
(* class SLSRenderer, and the file system queries of class SLSParser *)

\* os.path.isdir, os.path.exists on /srv/salt
IsDir(path) == path \in WorldDirs(world)
PathExists(path) == path \in DOMAIN WorldFiles(world)

\* SLSRenderer.render(file_name)
render(file_name) == WorldFiles(world)[file_name]

CACHE_FILE_PREFIX == <<"_","d","e","e","p","s","e","a">>
CACHE_DIR_PATH == <<"/","t","m","p">>

\* SLSParser._state_name_is_dir
state_name_is_dir(state_name) == IsDir(<<"/","s","r","v","/","s","a","l","t","/">> \o Replace(state_name, ".", "/"))

\* SLSParser._state_file_path: the path, which may not exist (the caller
\* raises OrchestrationNotFound then)
state_file_path(state_name) ==
    IF state_name_is_dir(state_name)
    THEN <<"/","s","r","v","/","s","a","l","t","/">> \o Replace(state_name, ".", "/") \o <<"/","i","n","i","t",".","s","l","s">>
    ELSE <<"/","s","r","v","/","s","a","l","t","/">> \o Replace(state_name, ".", "/") \o <<".","s","l","s">>

\* the number of leading dots of an include
RECURSIVE LeadingDots(_)
LeadingDots(include) ==
    IF include # <<>> /\ Head(include) = "." THEN 1 + LeadingDots(Tail(include)) ELSE 0

\* _gen_state_name_from_include without the extra level a leaf parent drops
gen_state_name_leaf_as_dir(parent_state, include) ==
    LET dots == LeadingDots(include)
        name == SubSeq(include, dots + 1, Len(include))
        parent == IF dots > 1
                  THEN Join(SliceTo(Split(parent_state, "."), -(dots - 1)), <<".">>)
                  ELSE parent_state
    IN  parent \o <<".">> \o name

\* SLSParser._gen_state_name_from_include
gen_state_name_from_include(parent_state, include) ==
    LET dots == LeadingDots(include)
        name == SubSeq(include, dots + 1, Len(include))
        dot_count == IF ~state_name_is_dir(parent_state) THEN dots + 1 ELSE dots
        parent == IF dot_count > 1
                  THEN Join(SliceTo(Split(parent_state, "."), -(dot_count - 1)), <<".">>)
                  ELSE parent_state
    IN  parent \o <<".">> \o name

----------------------------------------------------------------------------
(* class SaltStep and its four subclasses *)

\* SaltStep.get_arg: the value under key, of a dict or of the first element
\* of a list that holds key; None otherwise
get_arg(args, key) ==
    LET hits == SelectSeq(args.items, LAMBDA e : e.haskey /\ e.k = key) IN
    IF hits # <<>> THEN hits[1].v ELSE NoneVal

\* the string an argument value holds, None when it holds no string
TextOf(v) == IF v.ty = "str" THEN v.s ELSE NoneV

\* d[k] = v on a dict kept as the sequence of its pairs
DictSet(d, k, v) ==
    IF \E i \in DOMAIN d : d[i].k = k
    THEN [i \in DOMAIN d |-> IF d[i].k = k THEN KV(k, v) ELSE d[i]]
    ELSE Append(d, KV(k, v))

\* SaltBuiltIn.__init__: the argument list folded into one dict
RECURSIVE FoldArgs(_, _)
FoldArgs(items, d) ==
    IF items = <<>> THEN d
    ELSE LET arg == Head(items) IN
         FoldArgs(Tail(items),
                  IF arg.haskey THEN DictSet(d, arg.k, arg.v) ELSE DictSet(d, <<"n","o","k","e","y">>, arg.v))

SaltState(desc, args) ==
    [kind |-> "SaltState", desc |-> desc, args |-> args, fun |-> NoneV,
     state |-> TextOf(get_arg(args, <<"s","l","s">>)), target |-> TextOf(get_arg(args, <<"t","g","t">>)),
     on_success_deps |-> <<>>, on_fail_deps |-> <<>>]

SaltRunner(desc, args) ==
    [kind |-> "SaltRunner", desc |-> desc, args |-> args, fun |-> TextOf(get_arg(args, <<"n","a","m","e">>)),
     state |-> NoneV, target |-> NoneV, on_success_deps |-> <<>>, on_fail_deps |-> <<>>]

SaltModule(desc, args) ==
    [kind |-> "SaltModule", desc |-> desc, args |-> args, fun |-> TextOf(get_arg(args, <<"n","a","m","e">>)),
     state |-> NoneV, target |-> NoneV, on_success_deps |-> <<>>, on_fail_deps |-> <<>>]

SaltBuiltIn(desc, fun, args) ==
    [kind |-> "SaltBuiltIn", desc |-> desc, args |-> DictArgs(FoldArgs(args.items, <<>>)), fun |-> fun,
     state |-> NoneV, target |-> NoneV, on_success_deps |-> <<>>, on_fail_deps |-> <<>>]

\* the step _traverse_state builds for the pair fun: args under key
MakeStep(key, fun, args) ==
    IF fun = <<"s","a","l","t",".","s","t","a","t","e">> THEN SaltState(key, args)
    ELSE IF fun = <<"s","a","l","t",".","r","u","n","n","e","r">> THEN SaltRunner(key, args)
    ELSE IF fun = <<"m","o","d","u","l","e",".","r","u","n">> THEN SaltModule(key, args)
    ELSE SaltBuiltIn(key, fun, args)

----------------------------------------------------------------------------
(* SLSParser._search_step and the linking pass of parse_state_steps *)

\* the step may answer to the module name: the branches that do not `continue`.
\* "error" when step.fun is None, which cannot be sliced
ModuleVerdictLax(step, mod_name) == "pass"
ModuleVerdict(step, mod_name) ==
    IF mod_name = NoneV \/ mod_name = <<>> THEN "pass"
    ELSE IF step.kind = "SaltRunner" THEN (IF mod_name # <<"s","a","l","t">> THEN "skip" ELSE "pass")
    ELSE IF step.kind = "SaltState" THEN (IF mod_name # <<"s","a","l","t">> THEN "skip" ELSE "pass")
    ELSE IF step.fun = NoneV THEN "error"
    ELSE LET step_mod == SliceTo(step.fun, Find(step.fun, ".")) IN
         IF mod_name # step_mod THEN "skip" ELSE "pass"

\* step.desc == sid or (name_arg and name_arg == sid)
NameMatches(step, sid) ==
    LET name_arg == get_arg(step.args, <<"n","a","m","e">>) IN
    \/ step.desc = sid
    \/ name_arg.ty = "str" /\ name_arg.s # <<>> /\ name_arg.s = sid

\* SLSParser._search_step: the index of the first step that matches, 0 for
\* None, -1 when the loop raises before it finds one
RECURSIVE SearchFrom(_, _, _, _)
SearchFrom(steps, i, mod_name, sid) ==
    IF i > Len(steps) THEN 0
    ELSE LET v == ModuleVerdict(steps[i], mod_name) IN
         IF v = "error" THEN -1
         ELSE IF v = "pass" /\ NameMatches(steps[i], sid) THEN i
         ELSE SearchFrom(steps, i + 1, mod_name, sid)

search_step(steps, mod_name, sid) == SearchFrom(steps, 1, mod_name, sid)

RequisiteDirectives == <<<<"r","e","q","u","i","r","e">>, <<"w","a","t","c","h">>, <<"o","n","c","h","a","n","g","e","s">>, <<"o","n","f","a","i","l">>>>

\* the entries of a requisite argument, in the order the loops visit them;
\* none when the argument is absent or empty (`if req:`)
ReqEntries(req) ==
    IF req.ty = "none" THEN <<>>
    ELSE IF req.ty = "str" THEN (IF req.s = <<>> THEN <<>> ELSE <<ReqS(req.s)>>)
    ELSE req.items

\* the steps the entries of one directive resolve to, in order
Resolved(result, step, directive) ==
    LET entries == ReqEntries(get_arg(step.args, directive)) IN
    [k \in 1..Len(entries) |->
        search_step(result, IF entries[k].isdict THEN entries[k].mod ELSE NoneV, entries[k].sid)]

\* process_requisite_directive with its assertions dropped: an unresolved
\* entry is passed over
process_requisite_directive_noassert(result, step, directive) ==
    LET found == SelectSeq(Resolved(result, step, directive), LAMBDA i : i > 0) IN
    IF directive = <<"o","n","f","a","i","l">>
    THEN [err |-> "", step |-> [step EXCEPT !.on_fail_deps = @ \o found]]
    ELSE [err |-> "", step |-> [step EXCEPT !.on_success_deps = @ \o found]]

\* parse_state_steps.process_requisite_directive: the step with the edges of
\* one directive appended, or the exception the first bad entry raises
process_requisite_directive(result, step, directive) ==
    LET found == Resolved(result, step, directive)
        bad == {k \in 1..Len(found) : found[k] <= 0}
        first == CHOOSE k \in bad : \A j \in bad : k <= j
    IN  IF bad # {}
        THEN [err |-> IF found[first] = 0 THEN "AssertionError" ELSE "TypeError", step |-> step]
        ELSE IF directive \in {<<"r","e","q","u","i","r","e">>, <<"w","a","t","c","h">>, <<"o","n","c","h","a","n","g","e","s">>}
        THEN [err |-> "", step |-> [step EXCEPT !.on_success_deps = @ \o found]]
        ELSE IF directive = <<"o","n","f","a","i","l">>
        THEN [err |-> "", step |-> [step EXCEPT !.on_fail_deps = @ \o found]]
        ELSE [err |-> "", step |-> step]

\* the four directives of one step, in order
RECURSIVE LinkStep(_, _, _)
LinkStep(result, step, d) ==
    IF d > Len(RequisiteDirectives) THEN [err |-> "", step |-> step]
    ELSE LET r == process_requisite_directive(result, step, RequisiteDirectives[d]) IN
         IF r.err # "" THEN r ELSE LinkStep(result, r.step, d + 1)

\* the linking loop of parse_state_steps over the expanded list: the linked
\* list, or the first exception
LinkAll(result) ==
    LET linked == [i \in 1..Len(result) |-> LinkStep(result, result[i], 1)]
        bad == {i \in 1..Len(result) : linked[i].err # ""}
        first == CHOOSE i \in bad : \A j \in bad : i <= j
    IN  IF bad # {} THEN [kind |-> linked[first].err, plan |-> <<>>]
        ELSE [kind |-> "returned", plan |-> [i \in 1..Len(result) |-> linked[i].step]]

----------------------------------------------------------------------------
(* The cache files and SLSParser._traverse_state *)

\* the depth of the interpreter's call stack at which a call raises
\* RecursionError instead of running
RecursionLimit == 4

\* the prefix of the stages that stages_only keeps
StagePrefix == <<"c","e","p","h",".","s","t","a","g","e">>

\* the first test of _traverse_state: the state is left out
filtered_never(state_name, stages_only) == FALSE
filtered(state_name, stages_only) == stages_only /\ ~StartsWith(state_name, StagePrefix)

\* cache_file_path of _traverse_state
cache_file_path(stages_only, state_name) ==
    CACHE_DIR_PATH \o <<"/">> \o CACHE_FILE_PREFIX \o <<"_">> \o Str(stages_only) \o <<"_">>
        \o Fmt(state_name) \o <<".","b","i","n">>

\* os.path.exists(cache_file_path)
cache_never(path) == FALSE
cache_exists(path) == path \in DOMAIN cache

\* what the loops over state_dict.items() visit, in order: each include of an
\* "include" key, each fun: args pair of a key whose body is a dict
WorkOf(decl) ==
    IF decl.key = <<"i","n","c","l","u","d","e">>
    THEN [i \in 1..Len(decl.incs) |->
            [op |-> "include", key |-> decl.key, fun |-> decl.incs[i], args |-> ListArgs(<<>>)]]
    ELSE IF decl.isdict
    THEN [i \in 1..Len(decl.funs) |->
            [op |-> "step", key |-> decl.key, fun |-> decl.funs[i].fun, args |-> decl.funs[i].args]]
    ELSE <<>>

RECURSIVE WorkItems(_)
WorkItems(state_dict) ==
    IF state_dict = <<>> THEN <<>> ELSE WorkOf(Head(state_dict)) \o WorkItems(Tail(state_dict))

\* a frame of _traverse_state at its first line; the frame of
\* parse_state_steps, which waits for the list to link
Frame(state_name) == [name |-> state_name, pc |-> "enter", todo |-> <<>>, result |-> <<>>]
LinkFrame(state_name) == [name |-> state_name, pc |-> "link", todo |-> <<>>, result |-> <<>>]

EmptyCache == [p \in {} |-> 0]
Idle == [kind |-> "idle", plan |-> <<>>]
NoCall == [name |-> NoneV, stages_only |-> TRUE, cache |-> TRUE]
NoPrev == [valid |-> FALSE, name |-> NoneV, plan |-> <<>>]
NoInc == [parent |-> NoneV, include |-> NoneV, isdir |-> FALSE, result |-> NoneV]

Running == outcome.kind = "running"
Top == stack[Len(stack)]

\* the stack once the top frame has returned res: the caller extends its
\* list with it (result.extend, or result = ... in parse_state_steps)
Returned(stk, res) ==
    LET n == Len(stk) IN
    SubSeq(stk, 1, n - 2) \o <<[stk[n - 1] EXCEPT !.result = @ \o res]>>

\* the stack once the top frame, replaced by f, has called
\* _traverse_state(state_name)
Called(stk, f, state_name) == SubSeq(stk, 1, Len(stk) - 1) \o <<f, Frame(state_name)>>

\* what pickle.dump leaves in the cache file once it has completed
dump(result) == [st |-> "valid", plan |-> result]

Init ==
    /\ world \in Worlds
    /\ cache = EmptyCache
    /\ stack = <<>>
    /\ call = NoCall
    /\ outcome = Idle
    /\ renders = 0
    /\ touched = {}
    /\ prev = NoPrev
    /\ lastInc = NoInc
    /\ lastOp = [op |-> "init", arg |-> NoneV, removed |-> {}]

\* an exception leaves every frame
Raise(kind) ==
    /\ stack' = <<>>
    /\ outcome' = [kind |-> kind, plan |-> <<>>]

\* parse_state_steps(state_name, stages_only, cache) is called
Call(state_name, stages_only, use_cache) ==
    /\ ~Running
    /\ call' = [name |-> state_name, stages_only |-> stages_only, cache |-> use_cache]
    /\ stack' = <<LinkFrame(state_name), Frame(state_name)>>
    /\ outcome' = [kind |-> "running", plan |-> <<>>]
    /\ renders' = 0
    /\ touched' = {}
    /\ prev' = IF outcome.kind = "returned" /\ call.stages_only /\ call.cache
               THEN [valid |-> TRUE, name |-> call.name, plan |-> outcome.plan]
               ELSE NoPrev
    /\ lastInc' = NoInc
    /\ lastOp' = [op |-> "call", arg |-> state_name, removed |-> {}]
    /\ UNCHANGED <<world, cache>>

\* _traverse_state from its first line to the loop over the rendered file:
\* the filter, the cache lookup and load, the path lookup, the render
TraverseEnter ==
    /\ Running /\ Len(stack) > 1 /\ Top.pc = "enter"
    /\ LET state_name == Top.name
           path == cache_file_path(call.stages_only, state_name)
           sls == state_file_path(state_name)
       IN
       IF call.stages_only /\ state_name = NoneV
       THEN Raise("AttributeError") /\ UNCHANGED <<renders, touched>>
       ELSE IF filtered(state_name, call.stages_only)
       THEN /\ stack' = Returned(stack, <<>>)
            /\ UNCHANGED <<outcome, renders, touched>>
       ELSE IF call.cache /\ cache_exists(path)
       THEN /\ touched' = touched \cup {<<"cache", state_name>>}
            /\ renders' = renders
            /\ IF cache[path].st = "valid"
               THEN stack' = Returned(stack, cache[path].plan) /\ UNCHANGED outcome
               ELSE Raise("EOFError")   \* pickle.load of a file with no complete pickle
       ELSE IF state_name = NoneV
       THEN /\ Raise("AttributeError")
            /\ touched' = touched \cup (IF call.cache THEN {<<"cache", state_name>>} ELSE {})
            /\ renders' = renders
       ELSE IF ~PathExists(sls)
       THEN /\ Raise("OrchestrationNotFound")
            /\ touched' = touched \cup {<<"path", state_name>>}
                                  \cup (IF call.cache THEN {<<"cache", state_name>>} ELSE {})
            /\ renders' = renders
       ELSE /\ stack' = [stack EXCEPT ![Len(stack)] =
                            [@ EXCEPT !.pc = "iter", !.todo = WorkItems(render(sls))]]
            /\ renders' = renders + 1
            /\ touched' = touched \cup {<<"path", state_name>>, <<"render", state_name>>}
                                  \cup (IF call.cache THEN {<<"cache", state_name>>} ELSE {})
            /\ UNCHANGED outcome
    /\ lastOp' = [op |-> "enter", arg |-> Top.name, removed |-> {}]
    /\ UNCHANGED <<world, cache, call, prev, lastInc>>

\* one turn of the loops of _traverse_state: an include is resolved and
\* traversed, a step is built and appended, a salt.state step is traversed
TraverseItem ==
    /\ Running /\ Len(stack) > 1 /\ Top.pc = "iter" /\ Top.todo # <<>>
    /\ LET item == Head(Top.todo)
           f == [Top EXCEPT !.todo = Tail(@)]
       IN
       IF item.op = "include"
       THEN LET include_state_name == gen_state_name_from_include(f.name, item.fun) IN
            /\ lastInc' = [parent |-> f.name, include |-> item.fun,
                           isdir |-> state_name_is_dir(f.name), result |-> include_state_name]
            /\ IF Len(stack) >= RecursionLimit
               THEN Raise("RecursionError")
               ELSE stack' = Called(stack, f, include_state_name) /\ UNCHANGED outcome
       ELSE LET step == MakeStep(item.key, item.fun, item.args)
                g == [f EXCEPT !.result = Append(@, step)]
            IN
            /\ lastInc' = lastInc
            /\ IF step.kind # "SaltState"
               THEN stack' = [stack EXCEPT ![Len(stack)] = g] /\ UNCHANGED outcome
               ELSE IF Len(stack) >= RecursionLimit
               THEN Raise("RecursionError")
               ELSE stack' = Called(stack, g, step.state) /\ UNCHANGED outcome
    /\ lastOp' = [op |-> "item", arg |-> Top.name, removed |-> {}]
    /\ UNCHANGED <<world, cache, call, renders, touched, prev>>

\* the loops are over: without the cache the list is returned, with it the
\* cache file is opened for writing, which creates or empties it
TraverseFinish ==
    /\ Running /\ Len(stack) > 1 /\ Top.pc = "iter" /\ Top.todo = <<>>
    /\ IF call.cache
       THEN /\ cache' = (cache_file_path(call.stages_only, Top.name) :> [st |-> "open", plan |-> <<>>])
                        @@ cache
            /\ stack' = [stack EXCEPT ![Len(stack)] = [@ EXCEPT !.pc = "write"]]
       ELSE /\ stack' = Returned(stack, Top.result)
            /\ cache' = cache
    /\ lastOp' = [op |-> "finish", arg |-> Top.name, removed |-> {}]
    /\ UNCHANGED <<world, call, outcome, renders, touched, prev, lastInc>>

\* pickle.dump writes the list, the file is closed, the list is returned
TraverseDump ==
    /\ Running /\ Len(stack) > 1 /\ Top.pc = "write"
    /\ cache' = (cache_file_path(call.stages_only, Top.name) :> dump(Top.result)) @@ cache
    /\ stack' = Returned(stack, Top.result)
    /\ lastOp' = [op |-> "dump", arg |-> Top.name, removed |-> {}]
    /\ UNCHANGED <<world, call, outcome, renders, touched, prev, lastInc>>

\* parse_state_steps links the list _traverse_state returned and returns it
Link ==
    /\ Running /\ Len(stack) = 1
    /\ outcome' = LinkAll(stack[1].result)
    /\ stack' = <<>>
    /\ lastOp' = [op |-> "link", arg |-> call.name, removed |-> {}]
    /\ UNCHANGED <<world, cache, call, renders, touched, prev, lastInc>>

\* the process is interrupted or killed while parse_state_steps runs
Interrupt ==
    /\ Running
    /\ stack' = <<>>
    /\ outcome' = [kind |-> "interrupted", plan |-> <<>>]
    /\ lastOp' = [op |-> "interrupt", arg |-> call.name, removed |-> {}]
    /\ UNCHANGED <<world, cache, call, renders, touched, prev, lastInc>>

\* glob.glob of a pattern with one *: head*tail, where * spans no /
GlobMatch(path, head, tail) ==
    /\ Len(path) >= Len(head) + Len(tail)
    /\ StartsWith(path, head)
    /\ EndsWith(path, tail)
    /\ \A i \in (Len(head) + 1)..(Len(path) - Len(tail)) : path[i] # "/"

\* the cache files clean_cache(state_name) removes
clean_cache_all(state_name) == DOMAIN cache
clean_cache_files(state_name) ==
    IF state_name = NoneV \/ state_name = <<>>
    THEN {p \in DOMAIN cache :
            GlobMatch(p, CACHE_DIR_PATH \o <<"/">> \o CACHE_FILE_PREFIX \o <<"_">>, <<".","b","i","n">>)}
    ELSE {p \in DOMAIN cache :
            GlobMatch(p, CACHE_DIR_PATH \o <<"/">> \o CACHE_FILE_PREFIX \o <<"_">>,
                      <<"_">> \o state_name \o <<".","b","i","n">>)}

\* SLSParser.clean_cache(state_name)
CleanCache(state_name) ==
    /\ ~Running
    /\ LET removed == clean_cache_files(state_name) IN
       /\ cache' = [p \in DOMAIN cache \ removed |-> cache[p]]
       /\ lastOp' = [op |-> "clean_cache", arg |-> state_name, removed |-> removed]
    /\ stack' = <<>>
    /\ call' = NoCall
    /\ outcome' = Idle
    /\ renders' = 0
    /\ touched' = {}
    /\ prev' = NoPrev
    /\ lastInc' = NoInc
    /\ UNCHANGED world

Next ==
    \/ \E state_name \in Roots(world), stages_only \in BOOLEAN, use_cache \in BOOLEAN :
            Call(state_name, stages_only, use_cache)
    \/ TraverseEnter
    \/ TraverseItem
    \/ TraverseFinish
    \/ TraverseDump
    \/ Link
    \/ Interrupt
    \/ \E state_name \in CleanArgs(world) : CleanCache(state_name)

Spec == Init /\ [][Next]_vars

----------------------------------------------------------------------------
(* The properties *)

\* the call ran to an end of its own: it returned or raised
Ended == outcome.kind \notin {"idle", "running", "interrupted"}

\* the requisite entries of a step whose edges go to on_success_deps, and
\* to on_fail_deps, in the order the linking pass visits them
SuccessEntries(step) ==
    ReqEntries(get_arg(step.args, <<"r","e","q","u","i","r","e">>)) \o ReqEntries(get_arg(step.args, <<"w","a","t","c","h">>))
        \o ReqEntries(get_arg(step.args, <<"o","n","c","h","a","n","g","e","s">>))
FailEntries(step) == ReqEntries(get_arg(step.args, <<"o","n","f","a","i","l">>))

\* the step answers to the requisite entry: to its module, when it names
\* one, and to its target by description or name argument
IsMatch(step, entry) ==
    /\ NameMatches(step, entry.sid)
    /\ entry.isdict => ModuleVerdict(step, entry.mod) = "pass"

\* C1: when parse_state_steps(X, stages_only=True, cache=True) has returned a
\* Plan and is called again with the same X and flags, nothing having touched
\* the cache in between, the second call returns a Plan equal to the first
\* (steps, kinds, descriptions, dependency edges) and renders no file.
C1_CachedCallIdempotent ==
    (Ended /\ call.stages_only /\ call.cache /\ prev.valid /\ prev.name = call.name)
        => (outcome.kind = "returned" /\ outcome.plan = prev.plan /\ renders = 0)

\* a second call returned a linked Plan it had cached
C1_Witness ==
    /\ outcome.kind = "returned" /\ call.stages_only /\ call.cache
    /\ prev.valid /\ prev.name = call.name
    /\ \E i \in DOMAIN outcome.plan : outcome.plan[i].on_success_deps # <<>>

\* C2: a Plan that parse_state_steps returns has one edge for every requisite
\* entry its steps declare, each edge to a step of the Plan whose description
\* or name argument is the entry's target: a call whose Plan holds an entry
\* that no step matches returns no Plan.
C2_UnresolvedRequisiteIsFatal ==
    outcome.kind = "returned" =>
        \A i \in DOMAIN outcome.plan :
            LET step == outcome.plan[i]
                succ == SuccessEntries(step)
                fail == FailEntries(step)
            IN  /\ Len(step.on_success_deps) = Len(succ)
                /\ Len(step.on_fail_deps) = Len(fail)
                /\ \A k \in DOMAIN succ :
                        /\ step.on_success_deps[k] \in DOMAIN outcome.plan
                        /\ IsMatch(outcome.plan[step.on_success_deps[k]], succ[k])
                /\ \A k \in DOMAIN fail :
                        /\ step.on_fail_deps[k] \in DOMAIN outcome.plan
                        /\ IsMatch(outcome.plan[step.on_fail_deps[k]], fail[k])

\* the call for a stage with `require: zz`, which no step answers to, has failed
C2_Witness == world = "badreq" /\ outcome.kind = "AssertionError"

\* the Plan returned holds B with on_success_deps == [A] and no on_fail_deps,
\* and A with both lists empty
RoundTripLinked ==
    /\ outcome.kind = "returned"
    /\ \E a, b \in DOMAIN outcome.plan :
        /\ outcome.plan[a].desc = <<"A">> /\ outcome.plan[b].desc = <<"B">>
        /\ outcome.plan[b].on_success_deps = <<a>> /\ outcome.plan[b].on_fail_deps = <<>>
        /\ outcome.plan[a].on_success_deps = <<>> /\ outcome.plan[a].on_fail_deps = <<>>

\* a call for the stage that declares A and B has ended, and not on a cache
\* file it could not load
LinkCallEnded ==
    /\ world \in LinkWorlds /\ call.name = <<"c","e","p","h",".","s","t","a","g","e",".","1">>
    /\ Ended /\ outcome.kind # "EOFError"

\* the module prefix _search_step cuts from step.fun is "salt"
SaltPrefixed(step) ==
    step.fun # NoneV /\ SliceTo(step.fun, Find(step.fun, ".")) = <<"s","a","l","t">>

\* step A of the world, as _traverse_state builds it
StepA == LET d == DeclA(world) IN MakeStep(d.key, d.funs[1].fun, d.funs[1].args)

C4_IncludeExamples ==
    /\ (lastInc.parent = <<"c","e","p","h",".","s","t","a","g","e",".","4">> /\ lastInc.include = <<".",".","i","s","c","s","i">> /\ ~lastInc.isdir)
            => lastInc.result = <<"c","e","p","h",".","s","t","a","g","e",".","i","s","c","s","i">>
    /\ (lastInc.parent = <<"c","e","p","h",".","s","t","a","g","e">> /\ lastInc.include = <<".","o","p","e","n","a","t","t","i","c">> /\ lastInc.isdir)
            => lastInc.result = <<"c","e","p","h",".","o","p","e","n","a","t","t","i","c">>

\* C4, amended: the composite parent ceph.stage.4 with ..iscsi gives
\* ceph.stage.iscsi, the leaf parent ceph.stage with .openattic gives
\* ceph.openattic.
C4_IncludeExamplesSwapped ==
    /\ (lastInc.parent = <<"c","e","p","h",".","s","t","a","g","e",".","4">> /\ lastInc.include = <<".",".","i","s","c","s","i">> /\ lastInc.isdir)
            => lastInc.result = <<"c","e","p","h",".","s","t","a","g","e",".","i","s","c","s","i">>
    /\ (lastInc.parent = <<"c","e","p","h",".","s","t","a","g","e">> /\ lastInc.include = <<".","o","p","e","n","a","t","t","i","c">> /\ ~lastInc.isdir)
            => lastInc.result = <<"c","e","p","h",".","o","p","e","n","a","t","t","i","c">>

\* the leaf ceph.stage has included .openattic
C4_Witness ==
    /\ lastInc.parent = <<"c","e","p","h",".","s","t","a","g","e">> /\ lastInc.include = <<".","o","p","e","n","a","t","t","i","c">> /\ ~lastInc.isdir
    /\ lastInc.result = <<"c","e","p","h",".","o","p","e","n","a","t","t","i","c">>

\* C5: with stages_only=True a call looks up no cache file and no path for,
\* renders, and runs the loops of no state outside ceph.stage, whether it is
\* the root or reached by an include or a salt.state step; and a call for such
\* a root returns the empty Plan.
C5_FilterKeepsOut ==
    (outcome.kind # "idle" /\ call.stages_only) =>
        /\ \A t \in touched : StartsWith(t[2], StagePrefix)
        /\ \A i \in 2..Len(stack) :
                stack[i].pc \in {"iter", "write"} => StartsWith(stack[i].name, StagePrefix)
        /\ (Ended /\ ~StartsWith(call.name, StagePrefix))
                => (outcome.kind = "returned" /\ outcome.plan = <<>> /\ renders = 0 /\ touched = {})

\* a call with stages_only has come back from the include of ceph.openattic
\* with the one file of the root rendered
C5_Witness ==
    /\ call.stages_only /\ world = "leafstage" /\ outcome.kind = "returned"
    /\ lastInc.result = <<"c","e","p","h",".","o","p","e","n","a","t","t","i","c">> /\ renders = 1

\* C6: clean_cache with no state name leaves no cache file; clean_cache(X)
\* removes the files of X for both values of stages_only, removes only files
\* whose name contains X, and leaves every other file as it was.
C6_CleanCacheFrame ==
    [][lastOp'.op = "clean_cache" =>
        LET x == lastOp'.arg IN
        /\ DOMAIN cache' \subseteq DOMAIN cache
        /\ \A p \in DOMAIN cache' : cache'[p] = cache[p]
        /\ IF x = NoneV
           THEN DOMAIN cache' = {}
           ELSE /\ cache_file_path(TRUE, x) \notin DOMAIN cache'
                /\ cache_file_path(FALSE, x) \notin DOMAIN cache'
                /\ \A p \in DOMAIN cache \ DOMAIN cache' : Contains(p, x)]_vars

\* clean_cache("ceph.stage.4") removed the file of ceph.stage.4 and kept the
\* file of the stage it includes
C6_Witness ==
    /\ lastOp.op = "clean_cache" /\ lastOp.arg = <<"c","e","p","h",".","s","t","a","g","e",".","4">>
    /\ cache_file_path(TRUE, <<"c","e","p","h",".","s","t","a","g","e",".","4">>) \in lastOp.removed
    /\ cache_file_path(TRUE, <<"c","e","p","h",".","s","t","a","g","e",".","i","s","c","s","i">>) \in DOMAIN cache

\* C7: no call ends on a cache file it could not load: a cache entry that is
\* missing or cannot be unpickled is recomputed.
C7_CorruptCacheRecomputed == outcome.kind # "EOFError"

\* C8: the expansion does not enter a state that it is still expanding, and
\* no call ends because the call stack ran out.
C8_ExpansionTerminates ==
    /\ \A i, j \in 2..Len(stack) : i # j => stack[i].name # stack[j].name
    /\ outcome.kind # "RecursionError"

\* C9: after an interruption every cache file holds a complete Plan.
C9_InterruptLeavesCacheWhole ==
    outcome.kind = "interrupted" => \A p \in DOMAIN cache : cache[p].st = "valid"

\* the steps that the edges of the requisite entries {salt: sid} of a
\* returned Plan lead to
SaltEdgeTargets ==
    IF outcome.kind # "returned" THEN {}
    ELSE UNION {
        LET step == outcome.plan[i]
            succ == SuccessEntries(step)
            fail == FailEntries(step)
        IN  {outcome.plan[step.on_success_deps[k]] :
                k \in {n \in DOMAIN succ : succ[n].isdict /\ succ[n].mod = <<"s","a","l","t">>}}
            \cup {outcome.plan[step.on_fail_deps[k]] :
                k \in {n \in DOMAIN fail : fail[n].isdict /\ fail[n].mod = <<"s","a","l","t">>}}
        : i \in DOMAIN outcome.plan}

IsRunnerOrState(step) == step.kind \in {"SaltRunner", "SaltState"}

\* C10, as claimed: a requisite entry with the module "salt" resolves to a
\* SaltRunner or SaltState step only.
C10_SaltHintRunnerOrStateOnly == \A step \in SaltEdgeTargets : IsRunnerOrState(step)

\* C10, amended: a requisite entry with the module "salt" resolves to a
\* SaltRunner or SaltState step, or to a SaltModule or SaltBuiltIn step whose
\* fun has the module prefix "salt".
C10_SaltHintOrSaltPrefix ==
    \A step \in SaltEdgeTargets : IsRunnerOrState(step) \/ SaltPrefixed(step)

\* {salt: A} resolved to the SaltBuiltIn step of salt.function
C10_Witness ==
    /\ world = "linkFunction" /\ outcome.kind = "returned"
    /\ \E i, j \in DOMAIN outcome.plan :
        /\ outcome.plan[i].on_success_deps = <<j>>
        /\ outcome.plan[j].kind = "SaltBuiltIn"

====
